---- MODULE Spec2Model ----
(***************************************************************************)
(* A model of src/src/App.jsx (the polyglot app): the upload flow, the     *)
(* transcript/player synchronisation, the word popup, the translation      *)
(* cache, the word bank with its persisted record and its export, and the *)
(* quiz.                                                                   *)
(*                                                                         *)
(* Conventions.                                                            *)
(*  - A JavaScript string that the code takes apart (a word of the         *)
(*    transcript) is a sequence of one-character strings, so that cleaning *)
(*    and lowercasing are computed, not assumed.                           *)
(*  - A JavaScript value that may be null, undefined or a string is a      *)
(*    record with a "tag" field (Null, Undefined, Text, Lit).              *)
(*  - currentTime is kept in milliseconds (the code's seconds times 1000), *)
(*    so the code's  line.start / 1000 <= currentTime  is                  *)
(*    line.start <= currentTime  here.                                     *)
(*  - An action is one event handler (or one resumption of an async        *)
(*    handler after an await) together with the React effects its state    *)
(*    changes trigger.                                                     *)
(***************************************************************************)
EXTENDS Integers, Sequences, FiniteSets, Bags, TLC

VARIABLES
    targetLang,   \* useState("ar"), line 69
    transcript,   \* useState([]), line 70: sequence of lines
    status,       \* useState("idle"), line 71
    statusMsg,    \* useState(""), line 72
    currentTime,  \* useState(0), line 74 (milliseconds here)
    activeIndex,  \* useState(0), line 75 (0-based, as in the code)
    popup,        \* useState(null), line 76
    videoURL,     \* useState(null), line 77
    fileName,     \* useState(""), line 78
    summary,      \* useState([]), line 80
    keywords,     \* useState([]), line 81
    wordBank,     \* useState(...), line 88: sequence of entries, newest first
    cache,        \* useRef({}), line 95: the translation cache
    upload,       \* where the async handleFileChange is suspended
    inflight,     \* bag of translation requests awaiting their response
    lookedUp,     \* history: clean words clicked or saved since the last
                  \* change of the target language
    storage,      \* localStorage's item "polyglot_v2_wordbank", lines 89, 99
    now,          \* what Date.now() returns, line 211
    boot,         \* history: the item found in localStorage at startup
    crashed,      \* a render threw and React unmounted the tree
    exported,     \* the text of the last file downloadVocabCSV offered, line 49
    activeTab,    \* useState("transcript"), line 82
    quizMode,     \* useState("flashcard"), line 83
    quizIndex,    \* useState(0), line 84
    quizFlipped,  \* useState(false), line 85
    quizAnswer,   \* useState(null), line 86
    quizOptions   \* useState([]), line 87

vars == <<targetLang, transcript, status, statusMsg, currentTime,
          activeIndex, popup, videoURL, fileName, summary, keywords,
          wordBank, cache, upload, inflight, lookedUp, storage, now, boot,
          crashed, exported, activeTab, quizMode, quizIndex, quizFlipped,
          quizAnswer, quizOptions>>

syncVars  == <<transcript, status, statusMsg, currentTime, activeIndex,
               videoURL, fileName, summary, keywords, upload>>
vocabVars == <<targetLang, popup, wordBank, cache, inflight, lookedUp>>
\* The clock, the startup record, the crash flag and the downloaded file.
bootVars  == <<now, boot, crashed, exported>>
\* The quiz state that only the quiz tab's handlers set.
quizNavVars == <<activeTab, quizMode, quizIndex, quizFlipped>>
\* What the effects of lines 99 and 110-118 write.
effectVars == <<storage, quizAnswer, quizOptions>>

-----------------------------------------------------------------------------
(* Bounds of the model.                                                    *)

\* Lines of a transcription result.
MaxLines == 2
\* Playback times are 0, 1000, ..., MaxSeconds * 1000 milliseconds.
MaxSeconds == 6
\* Translation requests awaiting their response at one time.
MaxInFlight == 2
\* The target languages offered are the first NumLangs of LANGUAGES.
NumLangs == 2
\* Saves the user starts while the word bank and the pending saves together
\* hold fewer than MaxBank words.
MaxBank == 2
\* Entries of the word bank an earlier session may have left in storage.
MaxStored == 5
\* quizIndex grows up to MaxQuizIndex.
MaxQuizIndex == 2
\* Date.now() grows up to MaxClock.
MaxClock == 2
\* Tokens of a line handed to getTopKeywords.
MaxTokens == 3
\* The counts getTopKeywords is asked for are 0..MaxCount.
MaxCount == 3

-----------------------------------------------------------------------------
(* JavaScript values.                                                      *)

Null      == [tag |-> "null"]
Undefined == [tag |-> "undefined"]
\* The translatedText the service returns for (word, lang).
Text(word, lang) == [tag |-> "text", word |-> word, lang |-> lang]
\* A string that is the word itself (saveWord's  translation || clean).
Lit(word) == [tag |-> "lit", word |-> word]

\* JavaScript truthiness of a cache value: undefined and null are falsy.
Truthy(v) == v # Undefined /\ v # Null

-----------------------------------------------------------------------------
(* Characters and cleaning.                                                *)

UpperChars == <<"A","B","C","D","E","F","G","H","I","J","K","L","M",
                "N","O","P","Q","R","S","T","U","V","W","X","Y","Z">>
LowerChars == <<"a","b","c","d","e","f","g","h","i","j","k","l","m",
                "n","o","p","q","r","s","t","u","v","w","x","y","z">>

UpperSet == {UpperChars[i] : i \in 1..26}
LowerSet == {LowerChars[i] : i \in 1..26}

IsUpper(c) == c \in UpperSet
IsLower(c) == c \in LowerSet
IsLetter(c) == IsUpper(c) \/ IsLower(c)

\* String.prototype.toLowerCase on one character: the lowercase letter at
\* the same place of the alphabet.
LowerOf == [c \in UpperSet |->
              LowerChars[CHOOSE i \in 1..26 : UpperChars[i] = c]]

ToLowerChar(c) == IF IsUpper(c) THEN LowerOf[c] ELSE c

ToLowerCase(w) == [i \in 1..Len(w) |-> ToLowerChar(w[i])]

\* word.replace(/[^a-zA-Z]/g, "")  (handleWordClick)
ClickClean(word) == SelectSeq(word, IsLetter)

\* saveWord's cleaning without its toLowerCase()
SaveCleanKeepsCase(word) == SelectSeq(word, IsLetter)

\* word.replace(/[^a-zA-Z]/g, "").toLowerCase()  (saveWord)
SaveClean(word) == ToLowerCase(SelectSeq(word, IsLetter))

\* w.toLowerCase().replace(/[^a-z]/g, "")  (getTopKeywords)
KeywordClean(w) == SelectSeq(ToLowerCase(w), IsLower)

-----------------------------------------------------------------------------
(* Program constants.                                                      *)

\* LANGUAGES, lines 4-13 (the codes).
LANGUAGES == <<"ar", "fr", "es", "de", "ja", "tr", "it", "zh">>

\* STOP_WORDS, line 17.
STOP_WORDS == {
    <<"t","h","e">>, <<"a">>, <<"a","n">>, <<"i","s">>, <<"i","t">>,
    <<"i","n">>, <<"o","n">>, <<"a","t">>, <<"t","o">>, <<"o","f">>,
    <<"a","n","d">>, <<"o","r">>, <<"b","u","t">>, <<"w","a","s">>,
    <<"a","r","e">>, <<"b","e">>, <<"t","h","i","s">>, <<"t","h","a","t">>,
    <<"w","i","t","h">>, <<"f","o","r">>, <<"a","s">>, <<"b","y">>,
    <<"f","r","o","m">>, <<"h","a","v","e">>, <<"h","a","s">>,
    <<"h","a","d">>, <<"n","o","t">>, <<"w","e">>, <<"t","h","e","y">>,
    <<"h","e">>, <<"s","h","e">>, <<"y","o","u">>, <<"i">>, <<"m","y">>,
    <<"o","u","r">>, <<"h","i","s">>, <<"h","e","r">>, <<"i","t","s">>,
    <<"d","o">>, <<"d","i","d">>, <<"w","i","l","l">>,
    <<"w","o","u","l","d">>, <<"c","a","n">>, <<"c","o","u","l","d">>,
    <<"s","h","o","u","l","d">>, <<"b","e","e","n">>, <<"w","e","r","e">>,
    <<"s","o">>, <<"i","f">>, <<"u","p">>, <<"o","u","t">>,
    <<"a","b","o","u","t">>, <<"w","h","a","t">>, <<"w","h","i","c","h">>,
    <<"w","h","o">>, <<"w","h","e","n">>, <<"h","o","w">>, <<"a","l","l">>,
    <<"s","o","m","e">>, <<"o","n","e">>, <<"m","o","r","e">>,
    <<"a","l","s","o">>, <<"i","n","t","o">>, <<"j","u","s","t">>,
    <<"l","i","k","e">>, <<"g","e","t">>, <<"g","o","t">>,
    <<"t","h","a","n">>, <<"t","h","e","n">>, <<"n","o","w">>,
    <<"h","e","r","e">>, <<"t","h","e","r","e">>, <<"t","h","e","i","r">>,
    <<"y","o","u","r">>, <<"b","e","e","n">>, <<"v","e","r","y">>,
    <<"e","v","e","n">>, <<"o","n","l","y">>, <<"b","a","c","k">>,
    <<"a","f","t","e","r">>, <<"u","s","e">>, <<"t","w","o">>,
    <<"w","e","l","l">>, <<"w","a","y">>, <<"n","e","w">>,
    <<"w","a","n","t">>, <<"b","e","c","a","u","s","e">>, <<"a","n","y">>,
    <<"t","h","e","s","e">>, <<"g","i","v","e">>, <<"d","a","y">>,
    <<"m","o","s","t">>, <<"u","s">>
}

\* getTopKeywords' default count, line 27.
KeywordCount == 6

-----------------------------------------------------------------------------
(* Keyword extractor, lines 27-36.                                         *)

\* A line's text is its sequence of whitespace-separated tokens, so
\* line.text.split(/\s+/) is the sequence itself.
RECURSIVE AllTokens(_)
AllTokens(lines) ==
    IF lines = <<>> THEN <<>>
    ELSE Head(lines).text \o AllTokens(Tail(lines))

\* freq = {} is a plain object: reading a key it does not own finds what
\* Object.prototype holds under that name.  Of the names made of lowercase
\* letters only, Object.prototype has "constructor" (a function).
WordConstructor == <<"c","o","n","s","t","r","u","c","t","o","r">>
ObjectPrototypeKeys == {WordConstructor}

\* A value of freq: the number n, or (isNumber FALSE) the string that is
\* the inherited function's text followed by n characters "1".
Count(n) == [n |-> n, isNumber |-> TRUE]
FunctionTextPlus(n) == [n |-> n, isNumber |-> FALSE]

\* (freq[clean] || 0) + 1: a number is incremented, undefined counts as 0,
\* and a function or a string is concatenated with "1".
Incremented(freq, clean) ==
    IF \E i \in 1..Len(freq) : freq[i].word = clean
    THEN LET v == freq[CHOOSE i \in 1..Len(freq) : freq[i].word = clean].n
         IN  [n |-> v.n + 1, isNumber |-> v.isNumber]
    ELSE IF clean \in ObjectPrototypeKeys THEN FunctionTextPlus(1)
    ELSE Count(1)

\* freq[clean] = (freq[clean] || 0) + 1, for a token that passes the filter.
\* freq is the object's entries in insertion order.
CountToken(freq, w) ==
    LET clean == KeywordClean(w) IN
    IF Len(clean) > 4 /\ clean \notin STOP_WORDS
    THEN IF \E i \in 1..Len(freq) : freq[i].word = clean
         THEN [i \in 1..Len(freq) |->
                 IF freq[i].word = clean
                 THEN [word |-> clean, n |-> Incremented(freq, clean)]
                 ELSE freq[i]]
         ELSE Append(freq, [word |-> clean, n |-> Incremented(freq, clean)])
    ELSE freq

RECURSIVE CountTokens(_, _)
CountTokens(freq, tokens) ==
    IF tokens = <<>> THEN freq
    ELSE CountTokens(CountToken(freq, Head(tokens)), Tail(tokens))

\* The comparator (a, b) => b[1] - a[1]: with a string on either side the
\* difference is NaN, which sort takes as +0.
CompareCounts(a, b) ==
    IF a.n.isNumber /\ b.n.isNumber THEN b.n.n - a.n.n ELSE 0

\* Whether the comparator orders these entries consistently: entries that
\* compare equal to a common entry compare equal to each other.
ConsistentOn(entries) ==
    \A i, j, k \in 1..Len(entries) :
        (CompareCounts(entries[i], entries[j]) = 0
           /\ CompareCounts(entries[j], entries[k]) = 0)
        => CompareCounts(entries[i], entries[k]) = 0

\* A stable sort by a consistent comparator: an entry goes after every
\* entry that does not sort after it.
InsertByCount(sorted, e) ==
    LET k == Cardinality({i \in 1..Len(sorted) :
                             CompareCounts(sorted[i], e) <= 0})
    IN  SubSeq(sorted, 1, k) \o <<e>> \o SubSeq(sorted, k + 1, Len(sorted))

RECURSIVE SortByCount(_, _)
SortByCount(sorted, rest) ==
    IF rest = <<>> THEN sorted
    ELSE SortByCount(InsertByCount(sorted, Head(rest)), Tail(rest))

Min2(a, b) == IF a <= b THEN a ELSE b

\* The orders in which the elements of S can be listed.
PermsOf(S) ==
    {p \in [1..Cardinality(S) -> S] :
        \A i, j \in 1..Cardinality(S) : p[i] = p[j] => i = j}

\* Array.prototype.sort, line 35: stable under a consistent comparator;
\* otherwise the order is implementation-defined, so any order may result.
SortOutcomes(entries) ==
    IF ConsistentOn(entries) THEN {SortByCount(<<>>, entries)}
    ELSE {[i \in 1..Len(entries) |-> entries[p[i]]]
            : p \in PermsOf(1..Len(entries))}

\* The results getTopKeywords(lines, count) may return, for count >= 0.
getTopKeywords(lines, count) ==
    LET freq == CountTokens(<<>>, AllTokens(lines)) IN
    {LET top == SubSeq(ranked, 1, Min2(count, Len(ranked)))
     IN  [i \in 1..Len(top) |-> top[i].word]
       : ranked \in SortOutcomes(freq)}

-----------------------------------------------------------------------------
(* Transcript player sync, lines 101-105.                                  *)

\* transcript.reduce((best, line, i) =>
\*     (line.start / 1000 <= currentTime ? i : best), 0)
\* i is the code's 0-based index of lines[k], that is k - 1.
\* The reducer's test, line 103 (both sides in milliseconds).
QualifiesStrictly(line, time) == line.start < time
QualifiesFromEnd(line, time) == line.start >= time
Qualifies(line, time) == line.start <= time

RECURSIVE ReduceBest(_, _, _, _)
ReduceBest(lines, time, k, best) ==
    IF k > Len(lines) THEN best
    ELSE ReduceBest(lines, time, k + 1,
                    IF Qualifies(lines[k], time) THEN k - 1 ELSE best)

\* The effect of lines 101-105: an empty transcript returns early and
\* leaves activeIndex as it was.
ActiveIndexEffect(lines, time, old) ==
    IF Len(lines) = 0 THEN old ELSE ReduceBest(lines, time, 1, 0)

-----------------------------------------------------------------------------
(* Inputs: what the user and the services may supply.                      *)

WordHello     == <<"H","e","l","l","o">>
WordHelloBang == <<"h","e","l","l","o","!">>
WordA         == <<"a">>

\* The files the user may select; NoFile is a dialog closed with no file.
Files  == {"a.mp4", "b.mp3"}
NoFile == ""

\* result.text of the transcription of a file, as tokens: the service
\* answers a file with that file's transcript.
ResultTextOf(file) ==
    IF file = "a.mp4" THEN <<WordHello, WordHelloBang, WordA>>
    ELSE <<WordA, WordHelloBang>>

ResultTexts == {ResultTextOf(file) : file \in Files}

\* A line of result.summary: an optional bullet marker (-, the bullet sign
\* or *) and the text after it, "" when nothing but blanks follows.
SummaryLine(marker, body) == [marker |-> marker, body |-> body]

\* result.summary of the transcription of a file: the lines of the string,
\* or Null when the result has no summary.
ResultSummaryOf(file) ==
    IF file = "a.mp4"
    THEN <<SummaryLine(TRUE, "point 1"), SummaryLine(FALSE, ""),
           SummaryLine(TRUE, "point 2"), SummaryLine(TRUE, ""),
           SummaryLine(FALSE, "point 3"), SummaryLine(TRUE, "point 4"),
           SummaryLine(TRUE, "point 5"), SummaryLine(TRUE, "point 6")>>
    ELSE Null

\* Why a request of the transcription client fails: the promise rejects,
\* or (transcribe only) it resolves with status "error".
FailReasons == {"rejected", "errorStatus"}

\* Start times (ms) of the sentences the service returns, in chronological
\* order; a result may hold no sentence at all.
LineStarts == {0, 2000, 5000}

SentenceLists ==
    {s \in UNION {[1..n -> [start : LineStarts, text : ResultTexts]]
                    : n \in 0..MaxLines}
        : \A i \in 1..Len(s) : \A j \in i..Len(s) : s[i].start <= s[j].start}

\* The values videoRef.current.currentTime may report (ms).
TimesMs == {1000 * k : k \in 0..MaxSeconds}

-----------------------------------------------------------------------------
(* JSON and the persisted word bank: lines 88-90 and 99.                   *)

\* A JSON text is the tree it spells: null, a number, a string, an array of
\* texts, or an object, which is its members in the order they are written.
JNullText == [tag |-> "jnull"]
JNum(n) == [tag |-> "jnum", n |-> n]
JStr(s) == [tag |-> "jstr", s |-> s]
JArr(items) == [tag |-> "jarr", items |-> items]
JObj(members) == [tag |-> "jobj", members |-> members]
Member(key, value) == [key |-> key, value |-> value]
\* A text that is not JSON, and the empty string.
NotJson == [tag |-> "notjson"]
EmptyText == [tag |-> "empty"]

\* JSON.stringify of an entry of line 211: its four properties in the order
\* the object literal lists them.
StringifyEntryNoDate(e) ==
    JObj(<<Member("word", JStr(e.word)),
           Member("translation", JStr(e.translation)),
           Member("lang", JStr(e.lang))>>)
StringifyEntry(e) ==
    JObj(<<Member("word", JStr(e.word)),
           Member("translation", JStr(e.translation)),
           Member("lang", JStr(e.lang)),
           Member("date", JNum(e.date))>>)

\* JSON.stringify(wordBank), line 99.
JSONstringify(bank) ==
    JArr([i \in 1..Len(bank) |-> StringifyEntry(bank[i])])

\* JSON.parse of a text that is JSON: null, a number, a string, an array,
\* or an object whose property is the value of the last member of that key.
RECURSIVE JSONparse(_)
JSONparse(text) ==
    CASE text.tag = "jnull" -> Null
      [] text.tag = "jnum"  -> text.n
      [] text.tag = "jstr"  -> text.s
      [] text.tag = "jarr"  ->
           [i \in 1..Len(text.items) |-> JSONparse(text.items[i])]
      [] text.tag = "jobj"  ->
           LET m == text.members IN
           [k \in {m[i].key : i \in 1..Len(m)} |->
              JSONparse(m[CHOOSE i \in 1..Len(m) :
                             /\ m[i].key = k
                             /\ \A j \in (i + 1)..Len(m) : m[j].key # k].value)]

\* localStorage.getItem(...) || "[]", line 89: item is Null when the key is
\* absent.
TextToParse(item) ==
    IF item = Null \/ item = EmptyText THEN JArr(<<>>) ELSE item

\* The initializer of lines 88-90: the parsed value, or [] when JSON.parse
\* throws.
LoadWordBank(item) ==
    LET text == TextToParse(item) IN
    IF text = NotJson THEN <<>> ELSE JSONparse(text)

\* What kind of value LoadWordBank(item) is: an array, null, or another
\* value (a number, a string, an object).
LoadedKind(item) ==
    LET text == TextToParse(item) IN
    IF text = NotJson \/ text.tag = "jarr" THEN "array"
    ELSE IF text.tag = "jnull" THEN "null"
    ELSE "other"

\* Line 224 reads wordBank.length at every render, which throws when
\* wordBank is null.
RenderThrows(item) == LoadedKind(item) = "null"

\* The effect of line 99: what it stores for the word bank.
PersistNewestOnly(bank) ==
    JSONstringify(SubSeq(bank, 1, IF Len(bank) < 1 THEN Len(bank) ELSE 1))
PersistEffect(bank) == JSONstringify(bank)

\* The words an earlier session may have saved.
StoredWord(k) == <<LowerChars[k], LowerChars[k], LowerChars[k]>>

StoredEntry(k) ==
    [word |-> StoredWord(k),
     translation |-> Text(StoredWord(k), LANGUAGES[1]),
     lang |-> LANGUAGES[1],
     date |-> 0]

\* The word banks an earlier session may have left: the first n words.
StoredBanks == {[i \in 1..n |-> StoredEntry(i)] : n \in 0..MaxStored}

\* What may be found under the key at startup: nothing, the empty string,
\* text that is not JSON, JSON that is not an array, an array that does not
\* hold entries, and the record of a word bank.
CorruptItems ==
    {EmptyText, NotJson, JNullText, JNum(7),
     JObj(<<Member("word", JStr(StoredWord(1)))>>), JArr(<<JNum(7)>>)}

StoredItems ==
    {Null} \cup CorruptItems \cup {JSONstringify(b) : b \in StoredBanks}

-----------------------------------------------------------------------------
(* Initial state: lines 69-97, with nothing stored under the word bank key. *)

EmptyCache == [k \in {} |-> Null]

\* Lines 82-87.
FreshQuiz ==
    /\ activeTab = "transcript"
    /\ quizMode = "flashcard"
    /\ quizIndex = 0
    /\ quizFlipped = FALSE
    /\ quizAnswer = Null
    /\ quizOptions = <<>>

\* A JSON text that spells an array of objects with an entry's members.
IsBankText(text) ==
    /\ text.tag = "jarr"
    /\ \A i \in 1..Len(text.items) :
          /\ text.items[i].tag = "jobj"
          /\ [j \in 1..Len(text.items[i].members) |->
                 text.items[i].members[j].key]
               = <<"word", "translation", "lang", "date">>

\* Lines 88-90 and the first run of the effect of line 99, with item under
\* the key.  When the first render throws, no effect runs and the item
\* stays; for a JSON value that is not a word bank, JSON.stringify spells
\* the tree that was parsed.
Loaded(item) ==
    /\ boot = item
    /\ wordBank = LoadWordBank(item)
    /\ crashed = RenderThrows(item)
    /\ storage = IF RenderThrows(item) THEN item
                 ELSE IF TextToParse(item) = NotJson
                         \/ IsBankText(TextToParse(item))
                 THEN PersistEffect(LoadWordBank(item))
                 ELSE TextToParse(item)
    /\ now = 0
    /\ exported = Null

Init ==
    /\ targetLang = LANGUAGES[1]
    /\ transcript = <<>>
    /\ status = "idle"
    /\ statusMsg = ""
    /\ currentTime = 0
    /\ activeIndex = 0
    /\ popup = Null
    /\ videoURL = Null
    /\ fileName = ""
    /\ summary = <<>>
    /\ keywords = <<>>
    /\ Loaded(Null)
    /\ cache = EmptyCache
    /\ upload = [phase |-> "none"]
    /\ inflight = EmptyBag
    /\ lookedUp = {}
    /\ FreshQuiz

-----------------------------------------------------------------------------
(* What is rendered, lines 259-305.                                        *)

\* One of the three file inputs is on the page (lines 265, 298, 309).
FileInputAlsoWhileLoading == ~crashed
FileInputRendered ==
    /\ ~crashed
    /\ \/ status = "idle" /\ videoURL = Null
       \/ status = "error"
       \/ (status = "ready" \/ videoURL # Null)
            /\ status # "loading" /\ status # "error"

\* The dashboard (video, keywords, tabs) is on the page, line 305.
DashboardRendered ==
    /\ ~crashed
    /\ (status = "ready" \/ videoURL # Null)
         /\ status # "loading" /\ status # "error"

-----------------------------------------------------------------------------
(* Upload flow: handleFileChange, lines 134-181.                           *)

\* The status messages of lines 140, 145 and 179.
\* (line 145 replaces the message of line 140 before the first await)
MsgAnalysing == [tag |-> "msg", is |-> "analysing"]
MsgError(reason) == [tag |-> "msg", is |-> "error", reason |-> reason]

\* The status set by the catch block, line 179.
StatusOnCatchStaysLoading == "loading"
StatusOnCatch == "error"

\* Lines 169-172: the non-blank lines of the summary, each without its
\* bullet marker and trimmed, those that are then empty dropped, and the
\* first five kept.  Without a summary the state stays as line 139 set it.
SummaryBullets(raw) ==
    IF raw = Null THEN <<>>
    ELSE LET nonBlank == SelectSeq(raw, LAMBDA l : l.marker \/ l.body # "")
             bodies   == [i \in 1..Len(nonBlank) |-> nonBlank[i].body]
             bullets  == SelectSeq(bodies, LAMBDA t : t # "")
         IN  SubSeq(bullets, 1, IF Len(bullets) < 5 THEN Len(bullets) ELSE 5)

\* Lines 135-145: up to the first await.  The effect of lines 101-105 runs
\* for the emptied transcript and returns early.
HandleFileChange(file) ==
    /\ FileInputRendered
    /\ IF file = NoFile
       THEN UNCHANGED vars
       ELSE /\ fileName' = file
            /\ videoURL' = [tag |-> "url", file |-> file]
            /\ transcript' = <<>>
            /\ keywords' = <<>>
            /\ summary' = <<>>
            /\ status' = "loading"
            /\ statusMsg' = MsgAnalysing
            /\ cache' = EmptyCache
            /\ upload' = [phase |-> "transcribe", file |-> file]
            /\ activeIndex' = ActiveIndexEffect(<<>>, currentTime, activeIndex)
            /\ UNCHANGED <<targetLang, currentTime, popup, wordBank,
                           inflight, lookedUp>>
            /\ UNCHANGED <<bootVars, quizNavVars, effectVars>>

\* Lines 147-159: transcribe resolves with the result for the handler's
\* file, which is not an error.
TranscribeOk(text) ==
    /\ upload.phase = "transcribe"
    /\ text = ResultTextOf(upload.file)
    /\ upload' = [phase |-> "sentences", file |-> upload.file, text |-> text,
                  summary |-> ResultSummaryOf(upload.file)]
    /\ UNCHANGED <<targetLang, transcript, status, statusMsg, currentTime,
                   activeIndex, popup, videoURL, fileName, summary, keywords,
                   wordBank, cache, inflight, lookedUp>>
    /\ UNCHANGED <<bootVars, quizNavVars, effectVars>>

\* Lines 147-157, 177-180: transcribe rejects, or resolves with status
\* "error" and line 157 throws.
TranscribeFails(reason) ==
    /\ upload.phase = "transcribe"
    /\ status' = StatusOnCatch
    /\ statusMsg' = MsgError(reason)
    /\ upload' = [phase |-> "none"]
    /\ UNCHANGED <<targetLang, transcript, currentTime, activeIndex, popup,
                   videoURL, fileName, summary, keywords, wordBank, cache,
                   inflight, lookedUp>>
    /\ UNCHANGED <<bootVars, quizNavVars, effectVars>>

\* Lines 162-167.
LinesOfFirstOnly(sentences, text) ==
    IF Len(sentences) > 0 THEN SubSeq(sentences, 1, 1)
    ELSE <<[start |-> 0, text |-> text]>>
LinesOf(sentences, text) ==
    IF Len(sentences) > 0 THEN sentences
    ELSE <<[start |-> 0, text |-> text]>>

\* Lines 161-176: sentences resolves with the sentences of the handler's
\* transcript; then the effect of lines 101-105.
SentencesOk(sentences) ==
    /\ upload.phase = "sentences"
    /\ \A i \in 1..Len(sentences) : sentences[i].text = upload.text
    /\ LET lines == LinesOf(sentences, upload.text) IN
         /\ transcript' = lines
         /\ keywords' \in getTopKeywords(lines, KeywordCount)
         /\ activeIndex' = ActiveIndexEffect(lines, currentTime, activeIndex)
    /\ summary' = IF upload.summary = Null THEN summary
                  ELSE SummaryBullets(upload.summary)
    /\ status' = "ready"
    /\ upload' = [phase |-> "none"]
    /\ UNCHANGED <<targetLang, statusMsg, currentTime, popup, videoURL,
                   fileName, wordBank, cache, inflight, lookedUp>>
    /\ UNCHANGED <<bootVars, quizNavVars, effectVars>>

\* Lines 161, 177-180: sentences rejects.
SentencesFail ==
    /\ upload.phase = "sentences"
    /\ status' = StatusOnCatch
    /\ statusMsg' = MsgError("rejected")
    /\ upload' = [phase |-> "none"]
    /\ UNCHANGED <<targetLang, transcript, currentTime, activeIndex, popup,
                   videoURL, fileName, summary, keywords, wordBank, cache,
                   inflight, lookedUp>>
    /\ UNCHANGED <<bootVars, quizNavVars, effectVars>>

-----------------------------------------------------------------------------
(* Playback.                                                               *)

\* onTimeUpdate, line 333, then the effect of lines 101-105.
TimeUpdate(t) ==
    /\ DashboardRendered
    /\ currentTime' = t
    /\ activeIndex' = ActiveIndexEffect(transcript, t, activeIndex)
    /\ UNCHANGED <<targetLang, transcript, status, statusMsg, popup,
                   videoURL, fileName, summary, keywords, wordBank, cache,
                   upload, inflight, lookedUp>>
    /\ UNCHANGED <<bootVars, quizNavVars, effectVars>>

\* A click on line k (0-based k - 1), line 409: the player seeks to the
\* line's start and reports it through onTimeUpdate; the click also reaches
\* the window listener of lines 216-220, which closes the popup.
LineClick(k) ==
    /\ DashboardRendered
    /\ activeTab = "transcript"
    /\ k \in 1..Len(transcript)
    /\ currentTime' = transcript[k].start
    /\ activeIndex' = ActiveIndexEffect(transcript, transcript[k].start,
                                        activeIndex)
    /\ popup' = Null
    /\ UNCHANGED <<targetLang, transcript, status, statusMsg, videoURL,
                   fileName, summary, keywords, wordBank, cache, upload,
                   inflight, lookedUp>>
    /\ UNCHANGED <<bootVars, quizNavVars, effectVars>>

NextSync ==
    \/ \E file \in Files \cup {NoFile} : HandleFileChange(file)
    \/ \E text \in ResultTexts : TranscribeOk(text)
    \/ \E reason \in FailReasons : TranscribeFails(reason)
    \/ \E s \in SentenceLists : SentencesOk(s)
    \/ SentencesFail
    \/ \E t \in TimesMs : TimeUpdate(t)
    \/ \E k \in 1..MaxLines : LineClick(k)

\* The upload flow and the player, from the initial state.
SpecSync == Init /\ [][NextSync]_vars

-----------------------------------------------------------------------------
(* Translation: translateWord, lines 19-25, and the cache, line 95.        *)

\* How the translation service may answer one request.
Responses == {"ok", "notfound", "neterror"}

\* translateWord: the translated text when the response parses and its
\* responseStatus is 200, and null otherwise (line 23) or on a throw
\* (line 24).
translateWord(word, lang, response) ==
    IF response = "ok" THEN Text(word, lang) ELSE Null

\* `${clean}_${targetLang}`, lines 194 and 208.  clean holds letters only,
\* so the string determines the pair.
CacheKeyWordOnly(clean, lang) == <<clean, "">>
CacheKey(clean, lang) == <<clean, lang>>

\* cache.current[key]
CacheGet(c, key) == IF key \in DOMAIN c THEN c[key] ELSE Undefined

\* cache.current[key] = v
CachePut(c, key, v) ==
    [x \in DOMAIN c \cup {key} |-> IF x = key THEN v ELSE c[x]]

\* The languages of the select, line 250.
Langs == {LANGUAGES[i] : i \in 1..NumLangs}

\* The words rendered as clickable spans, lines 418-419.
WordsShown ==
    UNION {{transcript[i].text[j] : j \in 1..Len(transcript[i].text)}
             : i \in 1..Len(transcript)}

\* A suspended handler: the translation request it awaits, with the word
\* and the language its closure holds.
Request(kind, word, lang) == [kind |-> kind, word |-> word, lang |-> lang]

PendingSaves ==
    BagCardinality([r \in {q \in BagToSet(inflight) : q.kind = "save"}
                      |-> inflight[r]])

-----------------------------------------------------------------------------
(* The popup: handleWordClick, lines 189-203; rendering, lines 557-579.    *)

\* Lines 190-200: up to the await (or the return on a cache hit).
HandleWordClick(word) ==
    /\ DashboardRendered
    /\ activeTab = "transcript"
    /\ word \in WordsShown
    /\ LET clean == ClickClean(word)
           key   == CacheKey(clean, targetLang)
           hit   == CacheGet(cache, key)
       IN  IF Len(clean) < 2
           THEN UNCHANGED vars
           ELSE /\ lookedUp' = lookedUp \cup {clean}
                /\ IF Truthy(hit)
                   THEN /\ popup' = [word |-> clean, translation |-> hit]
                        /\ UNCHANGED inflight
                   ELSE /\ BagCardinality(inflight) < MaxInFlight
                        /\ popup' = [word |-> clean, translation |-> Null]
                        /\ inflight' = inflight (+)
                             SetToBag({Request("click", clean, targetLang)})
                /\ UNCHANGED <<targetLang, wordBank, cache>>
                /\ UNCHANGED syncVars
                /\ UNCHANGED <<bootVars, quizNavVars, effectVars>>

\* The popup set at line 202, from the handler's own word and result.
PopupOnResolveKeepWord(req, translation) ==
    [word |-> IF popup = Null THEN req.word ELSE popup.word,
     translation |-> translation]
PopupOnResolve(req, translation) ==
    [word |-> req.word, translation |-> translation]

\* Lines 200-202: the request of a word click resolves.
ClickResolves(req, response) ==
    /\ BagIn(req, inflight)
    /\ req.kind = "click"
    /\ LET translation == translateWord(req.word, req.lang, response) IN
         /\ cache' = CachePut(cache, CacheKey(req.word, req.lang), translation)
         /\ popup' = PopupOnResolve(req, translation)
    /\ inflight' = inflight (-) SetToBag({req})
    /\ UNCHANGED <<targetLang, wordBank, lookedUp>>
    /\ UNCHANGED syncVars
    /\ UNCHANGED <<bootVars, quizNavVars, effectVars>>

\* What the popup shows, lines 557-579.
PopupView(p) ==
    IF p = Null THEN "hidden"
    ELSE IF p.translation = Null THEN "loading"
    ELSE "translation"

\* The window's click listener, lines 216-220: a click that no handler
\* stopped closes the popup.
WindowClick ==
    /\ ~crashed
    /\ popup' = Null
    /\ UNCHANGED <<targetLang, wordBank, cache, inflight, lookedUp>>
    /\ UNCHANGED syncVars
    /\ UNCHANGED <<bootVars, quizNavVars, effectVars>>

\* cache.current = {} at line 248.
CacheKeptOnLangChange == cache
CacheAfterLangChange == EmptyCache

\* The select's onChange, line 248.
SetTargetLang(lang) ==
    /\ ~crashed
    /\ lang # targetLang
    /\ targetLang' = lang
    /\ popup' = Null
    /\ cache' = CacheAfterLangChange
    /\ lookedUp' = {}
    /\ UNCHANGED <<wordBank, inflight>>
    /\ UNCHANGED syncVars
    /\ UNCHANGED <<bootVars, quizNavVars, effectVars>>

-----------------------------------------------------------------------------
(* The quiz word and the options effect: lines 110-118 and 224.            *)

\* A JavaScript number held where null may be held too (quizAnswer).
Number(n) == [tag |-> "number", n |-> n]

\* The % operator: the result takes the sign of the dividend.
JsRemainder(a, n) == IF a >= 0 THEN a % n ELSE 0 - ((0 - a) % n)

\* array[i] for a 0-based i: undefined outside the array.
At(array, i) ==
    IF i >= 0 /\ i < Len(array) THEN array[i + 1] ELSE Undefined

\* quizWord, line 224.
QuizWordOf(bank, index) ==
    IF Len(bank) > 0 THEN At(bank, JsRemainder(index, Len(bank))) ELSE Null

quizWord == QuizWordOf(wordBank, quizIndex)

\* How many of the other entries line 114 keeps: slice(0, 3).
KeepAllOthers(n) == n
KeepOthers(n) == Min2(3, n)

\* Lines 114-115: the entries whose word differs from the correct one's are
\* shuffled and the first three kept; these and the correct entry are
\* shuffled again.  A shuffle by sort(() => Math.random() - 0.5) may give
\* any order.  Index 0 stands for the correct entry.
SampleOptions(bank, correct) ==
    LET others == {i \in 1..Len(bank) : bank[i].word # correct.word}
        kept   == {T \in SUBSET others :
                      Cardinality(T) = KeepOthers(Cardinality(others))}
    IN  {[j \in DOMAIN p |-> IF p[j] = 0 THEN correct ELSE bank[p[j]]]
           : p \in UNION {PermsOf(T \cup {0}) : T \in kept}}

\* The effect of lines 110-118, run after a handler that leaves quizAnswer
\* at `answer`: it runs when quizIndex, quizMode or wordBank.length changed.
QuizOptionsEffect(answer) ==
    LET correct == At(wordBank', JsRemainder(quizIndex', Len(wordBank')))
    IN  IF /\ \/ quizIndex' # quizIndex
              \/ quizMode' # quizMode
              \/ Len(wordBank') # Len(wordBank)
           /\ Len(wordBank') >= 2
           /\ quizMode' = "quiz"
           /\ correct # Undefined
        THEN /\ quizOptions' \in SampleOptions(wordBank', correct)
             /\ quizAnswer' = Null
        ELSE /\ quizOptions' = quizOptions
             /\ quizAnswer' = answer

\* The effects that follow a handler which may have set the word bank:
\* line 99 when the word bank changed, and lines 110-118.
BankEffects ==
    /\ storage' = IF wordBank' # wordBank
                  THEN PersistEffect(wordBank')
                  ELSE storage
    /\ QuizOptionsEffect(quizAnswer)

\* What the quiz tab shows, lines 468-543.
QuizView ==
    IF ~(DashboardRendered /\ activeTab = "quiz") THEN "none"
    ELSE IF Len(wordBank) < 2 THEN "insufficient"
    ELSE IF quizMode = "flashcard" /\ Truthy(quizWord) THEN "flashcard"
    ELSE IF quizMode = "quiz" /\ Truthy(quizWord) THEN "question"
    ELSE "modes"

-----------------------------------------------------------------------------
(* The word bank: saveWord, lines 205-212; removeWord, line 214.           *)

InBankNever(clean) == FALSE
InBank(clean) == \E i \in 1..Len(wordBank) : wordBank[i].word = clean

\* The entry of line 211.
Entry(clean, translation, lang) ==
    [word |-> clean,
     translation |-> IF Truthy(translation) THEN translation ELSE Lit(clean),
     lang |-> lang,
     date |-> now]

\* The updater of line 211: prev => [entry, ...prev].
AddEntryAtEnd(prev, entry) == Append(prev, entry)
AddEntry(prev, entry) == <<entry>> \o prev

\* The updater of line 214: prev => prev.filter(w => w.word !== word).
removeWordKeepsIt(prev, word) == SelectSeq(prev, LAMBDA e : e.word = word)
removeWord(prev, word) == SelectSeq(prev, LAMBDA e : e.word # word)

\* Line 447: if (confirm(...)) setWordBank([]), with the user's answer.
ClearedUnasked(prev, confirmed) == <<>>
ClearedIfConfirmed(prev, confirmed) == IF confirmed THEN <<>> ELSE prev

\* saveWord up to its await, or to its end when line 207 returns or the
\* cache holds a truthy value, which line 209 uses without awaiting.
SaveWord(word) ==
    LET clean == SaveClean(word)
        key   == CacheKey(clean, targetLang)
        hit   == CacheGet(cache, key)
    IN  IF Len(clean) < 2 \/ InBank(clean)
        THEN UNCHANGED <<wordBank, cache, inflight, lookedUp>>
        ELSE /\ Len(wordBank) + PendingSaves < MaxBank
             /\ lookedUp' = lookedUp \cup {clean}
             /\ IF Truthy(hit)
                THEN /\ cache' = CachePut(cache, key, hit)
                     /\ wordBank' =
                          AddEntry(wordBank, Entry(clean, hit, targetLang))
                     /\ UNCHANGED inflight
                ELSE /\ BagCardinality(inflight) < MaxInFlight
                     /\ inflight' = inflight (+)
                          SetToBag({Request("save", clean, targetLang)})
                     /\ UNCHANGED <<wordBank, cache>>

\* The popup's save button, line 571: saveWord(popup.word); setPopup(null).
SaveFromPopup ==
    /\ PopupView(popup) = "translation"
    /\ SaveWord(popup.word)
    /\ UNCHANGED <<bootVars, quizNavVars>>
    /\ BankEffects
    /\ popup' = Null
    /\ UNCHANGED targetLang
    /\ UNCHANGED syncVars

\* A keyword's button, line 355; the click also reaches the window
\* listener, which closes the popup.
SaveFromKeyword(k) ==
    /\ DashboardRendered
    /\ k \in 1..Len(keywords)
    /\ SaveWord(keywords[k])
    /\ UNCHANGED <<bootVars, quizNavVars>>
    /\ BankEffects
    /\ popup' = Null
    /\ UNCHANGED targetLang
    /\ UNCHANGED syncVars

\* The targetLang of line 211 is the one of the handler's closure, the
\* language of its request.
SavedLangAtCompletion(req) == targetLang
SavedLang(req) == req.lang

\* Lines 209-211: the request of a save resolves.
SaveResolves(req, response) ==
    /\ BagIn(req, inflight)
    /\ req.kind = "save"
    /\ LET translation == translateWord(req.word, req.lang, response) IN
         /\ cache' = CachePut(cache, CacheKey(req.word, req.lang), translation)
         /\ wordBank' =
              AddEntry(wordBank, Entry(req.word, translation, SavedLang(req)))
    /\ inflight' = inflight (-) SetToBag({req})
    /\ UNCHANGED <<bootVars, quizNavVars>>
    /\ BankEffects
    /\ UNCHANGED <<targetLang, popup, lookedUp>>
    /\ UNCHANGED syncVars

\* removeWord, line 214, from the entry's button, line 458, on the word
\* bank tab.
RemoveWord(word) ==
    /\ DashboardRendered
    /\ activeTab = "wordbank"
    /\ InBank(word)
    /\ wordBank' = removeWord(wordBank, word)
    /\ UNCHANGED <<bootVars, quizNavVars>>
    /\ BankEffects
    /\ popup' = Null
    /\ UNCHANGED <<targetLang, cache, inflight, lookedUp>>
    /\ UNCHANGED syncVars

\* The clear-all button, line 447, on the word bank tab, with the user's
\* answer to confirm().
ClearAll(confirmed) ==
    /\ DashboardRendered
    /\ activeTab = "wordbank"
    /\ Len(wordBank) > 0
    /\ wordBank' = ClearedIfConfirmed(wordBank, confirmed)
    /\ UNCHANGED <<bootVars, quizNavVars>>
    /\ BankEffects
    /\ popup' = Null
    /\ UNCHANGED <<targetLang, cache, inflight, lookedUp>>
    /\ UNCHANGED syncVars

\* downloadVocabCSV, lines 46-54.  A string is the sequence of its pieces:
\* commas, line breaks, and chunks of other characters.
Comma     == [tag |-> ","]
LineBreak == [tag |-> "\n"]
Chunk(of) == [tag |-> "chunk", of |-> of]

\* A text of the translation service that holds a line break, and its two
\* parts.
TextOfTwoLines(word, lang) == [tag |-> "text2", word |-> word, lang |-> lang]
TextPart(text, k) == [tag |-> "part", of |-> text, k |-> k]

\* The pieces of a cell: a header, an entry's word, its translation (the
\* service's text or the word itself) or its language code.
PiecesOf(cell) ==
    IF cell.tag = "text2"
    THEN <<Chunk(TextPart(cell, 1)), LineBreak, Chunk(TextPart(cell, 2))>>
    ELSE <<Chunk(cell)>>

Header(s) == [tag |-> "header", s |-> s]
WordCell(word) == Lit(word)
LangCell(code) == [tag |-> "code", s |-> code]

\* Array.prototype.join: the strings with the separator between them.
RECURSIVE Join(_, _)
Join(strings, sep) ==
    IF Len(strings) = 0 THEN <<>>
    ELSE IF Len(strings) = 1 THEN strings[1]
    ELSE strings[1] \o <<sep>> \o Join(Tail(strings), sep)

\* Line 47.
Rows(bank) ==
    <<<<Header("Word"), Header("Translation"), Header("Language")>>>>
    \o [i \in 1..Len(bank) |->
          <<WordCell(bank[i].word), bank[i].translation,
            LangCell(bank[i].lang)>>]

\* Line 48: the text of the file.
downloadVocabCSV(bank) ==
    LET rows == Rows(bank) IN
    Join([i \in 1..Len(rows) |->
             Join([j \in 1..Len(rows[i]) |-> PiecesOf(rows[i][j])], Comma)],
         LineBreak)

\* The file offered for download, lines 49-53, with its text.
CsvFile(text) == [tag |-> "file", text |-> text]

\* The CSV button, line 446, on the word bank tab; the click also reaches
\* the window listener.
DownloadCSV ==
    /\ DashboardRendered
    /\ activeTab = "wordbank"
    /\ Len(wordBank) > 0
    /\ exported' = CsvFile(downloadVocabCSV(wordBank))
    /\ popup' = Null
    /\ UNCHANGED <<targetLang, wordBank, cache, inflight, lookedUp>>
    /\ UNCHANGED syncVars
    /\ UNCHANGED <<now, boot, crashed, quizNavVars, effectVars>>

\* A tab's button, line 390; the click also reaches the window listener.
SetActiveTab(tab) ==
    /\ DashboardRendered
    /\ activeTab' = tab
    /\ popup' = Null
    /\ UNCHANGED <<targetLang, wordBank, cache, inflight, lookedUp>>
    /\ UNCHANGED syncVars
    /\ UNCHANGED <<bootVars, effectVars, quizMode, quizIndex, quizFlipped>>

\* Time passes: Date.now() returns a later value.
Tick ==
    /\ now < MaxClock
    /\ now' = now + 1
    /\ UNCHANGED <<boot, crashed, exported>>
    /\ UNCHANGED <<vocabVars, syncVars, quizNavVars, effectVars>>

\* The state after a first upload has completed: file a.mp4, a result with
\* no sentences, so the transcript is the one line of line 167.
VocabLines == LinesOf(<<>>, ResultTextOf("a.mp4"))

InitVocab ==
    /\ targetLang = LANGUAGES[1]
    /\ transcript = VocabLines
    /\ status = "ready"
    /\ statusMsg = MsgAnalysing
    /\ currentTime = 0
    /\ activeIndex = 0
    /\ popup = Null
    /\ videoURL = [tag |-> "url", file |-> "a.mp4"]
    /\ fileName = "a.mp4"
    /\ summary = SummaryBullets(ResultSummaryOf("a.mp4"))
    /\ keywords \in getTopKeywords(VocabLines, KeywordCount)
    /\ Loaded(Null)
    /\ cache = EmptyCache
    /\ upload = [phase |-> "none"]
    /\ inflight = EmptyBag
    /\ lookedUp = {}
    /\ FreshQuiz

NextVocab ==
    \/ \E word \in WordsShown : HandleWordClick(word)
    \/ \E req \in BagToSet(inflight), response \in Responses :
          ClickResolves(req, response)
    \/ WindowClick
    \/ \E lang \in Langs : SetTargetLang(lang)
    \/ SaveFromPopup
    \/ \E k \in 1..KeywordCount : SaveFromKeyword(k)
    \/ \E req \in BagToSet(inflight), response \in Responses :
          SaveResolves(req, response)
    \/ \E word \in {SaveClean(w) : w \in WordsShown} : RemoveWord(word)
    \/ \E confirmed \in BOOLEAN : ClearAll(confirmed)
    \/ \E tab \in {"transcript", "wordbank"} : SetActiveTab(tab)

\* The popup, the cache and the word bank, with a transcript on the page.
SpecVocab == InitVocab /\ [][NextVocab]_vars

NextPopup ==
    \/ \E word \in WordsShown : HandleWordClick(word)
    \/ \E req \in BagToSet(inflight), response \in Responses :
          ClickResolves(req, response)
    \/ WindowClick
    \/ \E lang \in Langs : SetTargetLang(lang)

\* The popup and the cache alone: word clicks, their requests, clicks
\* elsewhere and changes of the target language, with nothing saved.
SpecPopup == InitVocab /\ [][NextPopup]_vars

NextStore ==
    \/ \E k \in 1..KeywordCount : SaveFromKeyword(k)
    \/ \E req \in BagToSet(inflight), response \in Responses :
          SaveResolves(req, response)
    \/ \E i \in 1..Len(wordBank) : RemoveWord(wordBank[i].word)
    \/ \E confirmed \in BOOLEAN : ClearAll(confirmed)
    \/ \E tab \in {"transcript", "wordbank"} : SetActiveTab(tab)
    \/ \E lang \in Langs : SetTargetLang(lang)
    \/ Tick

\* The word bank and its persisted record: keyword saves, removals and
\* clearing, while time passes.
SpecStore == InitVocab /\ [][NextStore]_vars

\* A word bank of an earlier session in which the service answered one word
\* with a text of two lines.
TwoLineEntry ==
    [word |-> StoredWord(1),
     translation |-> TextOfTwoLines(StoredWord(1), LANGUAGES[1]),
     lang |-> LANGUAGES[1],
     date |-> 0]

ExportBanks == StoredBanks \cup {<<StoredEntry(2), TwoLineEntry>>}

\* The state after a startup that found a word bank in storage, and a first
\* upload (as in InitVocab).
InitBank ==
    /\ targetLang = LANGUAGES[1]
    /\ transcript = VocabLines
    /\ status = "ready"
    /\ statusMsg = MsgAnalysing
    /\ currentTime = 0
    /\ activeIndex = 0
    /\ popup = Null
    /\ videoURL = [tag |-> "url", file |-> "a.mp4"]
    /\ fileName = "a.mp4"
    /\ summary = SummaryBullets(ResultSummaryOf("a.mp4"))
    /\ keywords \in getTopKeywords(VocabLines, KeywordCount)
    /\ \E bank \in ExportBanks : Loaded(JSONstringify(bank))
    /\ cache = EmptyCache
    /\ upload = [phase |-> "none"]
    /\ inflight = EmptyBag
    /\ lookedUp = {}
    /\ FreshQuiz

NextBank ==
    \/ \E k \in 1..KeywordCount : SaveFromKeyword(k)
    \/ \E req \in BagToSet(inflight), response \in Responses :
          SaveResolves(req, response)
    \/ \E i \in 1..Len(wordBank) : RemoveWord(wordBank[i].word)
    \/ \E confirmed \in BOOLEAN : ClearAll(confirmed)
    \/ DownloadCSV
    \/ \E tab \in {"transcript", "wordbank"} : SetActiveTab(tab)
    \/ Tick

\* The word bank an earlier session left: saves, removals, clearing and
\* export, while time passes.
SpecBank == InitBank /\ [][NextBank]_vars

\* The state after startup, lines 69-99, with any item under the key.
InitStartup ==
    /\ targetLang = LANGUAGES[1]
    /\ transcript = <<>>
    /\ status = "idle"
    /\ statusMsg = ""
    /\ currentTime = 0
    /\ activeIndex = 0
    /\ popup = Null
    /\ videoURL = Null
    /\ fileName = ""
    /\ summary = <<>>
    /\ keywords = <<>>
    /\ \E item \in StoredItems : Loaded(item)
    /\ cache = EmptyCache
    /\ upload = [phase |-> "none"]
    /\ inflight = EmptyBag
    /\ lookedUp = {}
    /\ FreshQuiz

NextStartup ==
    \/ \E file \in Files \cup {NoFile} : HandleFileChange(file)
    \/ \E text \in ResultTexts : TranscribeOk(text)
    \/ \E reason \in FailReasons : TranscribeFails(reason)
    \/ SentencesFail
    \/ WindowClick
    \/ \E lang \in Langs : SetTargetLang(lang)

\* Startup and what can happen before the dashboard first renders.
SpecStartup == InitStartup /\ [][NextStartup]_vars

\* The state after a startup that found the word bank of an earlier session
\* in storage.
InitUpload ==
    /\ targetLang = LANGUAGES[1]
    /\ transcript = <<>>
    /\ status = "idle"
    /\ statusMsg = ""
    /\ currentTime = 0
    /\ activeIndex = 0
    /\ popup = Null
    /\ videoURL = Null
    /\ fileName = ""
    /\ summary = <<>>
    /\ keywords = <<>>
    /\ \E bank \in StoredBanks : Loaded(JSONstringify(bank))
    /\ cache = EmptyCache
    /\ upload = [phase |-> "none"]
    /\ inflight = EmptyBag
    /\ lookedUp = {}
    /\ FreshQuiz

NextUpload ==
    \/ \E file \in Files \cup {NoFile} : HandleFileChange(file)
    \/ \E text \in ResultTexts : TranscribeOk(text)
    \/ \E reason \in FailReasons : TranscribeFails(reason)
    \/ \E s \in SentenceLists : SentencesOk(s)
    \/ SentencesFail
    \/ \E k \in 1..KeywordCount : SaveFromKeyword(k)
    \/ \E req \in BagToSet(inflight), response \in Responses :
          SaveResolves(req, response)

\* Uploads that succeed or fail, one after another, over the word bank
\* startup loaded, with keyword saves in between and during them.
SpecUpload == InitUpload /\ [][NextUpload]_vars

\* The tokens of the lines handed to getTopKeywords: words in either case
\* and with punctuation, a stop word of five letters and a short one.
WordTesting     == <<"t","e","s","t","i","n","g">>
WordTestingCap  == <<"T","e","s","t","i","n","g",",">>
WordIntegration == <<"i","n","t","e","g","r","a","t","i","o","n">>
WordAbout       == <<"a","b","o","u","t">>
WordThe         == <<"t","h","e">>

KeywordTokens ==
    {WordTesting, WordTestingCap, WordIntegration, WordConstructor,
     WordAbout, WordThe}

\* testing testing integration integration integration the a
ExampleText ==
    <<WordTesting, WordTesting, WordIntegration, WordIntegration,
      WordIntegration, WordThe, WordA>>

TextsUpTo(n) == UNION {[1..k -> KeywordTokens] : k \in 1..n}

\* One line of up to MaxTokens tokens, the example, or two shorter lines.
KeywordLineLists ==
    {<<[start |-> 0, text |-> t]>> : t \in TextsUpTo(MaxTokens) \cup {ExampleText}}
    \cup {<<[start |-> 0, text |-> t], [start |-> 2000, text |-> u]>>
            : t \in TextsUpTo(MaxTokens - 1), u \in TextsUpTo(MaxTokens - 2)}

\* getTopKeywords applied to the transcript with a requested count.
ExtractKeywords(count) ==
    /\ keywords' \in getTopKeywords(transcript, count)
    /\ UNCHANGED <<targetLang, transcript, status, statusMsg, currentTime,
                   activeIndex, popup, videoURL, fileName, summary, wordBank,
                   cache, upload, inflight, lookedUp>>
    /\ UNCHANGED <<bootVars, quizNavVars, effectVars>>

\* Lines on the page whose keywords have not been extracted yet.
InitKeywords ==
    /\ targetLang = LANGUAGES[1]
    /\ transcript \in KeywordLineLists
    /\ status = "ready"
    /\ statusMsg = MsgAnalysing
    /\ currentTime = 0
    /\ activeIndex = 0
    /\ popup = Null
    /\ videoURL = [tag |-> "url", file |-> "a.mp4"]
    /\ fileName = "a.mp4"
    /\ summary = <<>>
    /\ keywords = <<>>
    /\ Loaded(Null)
    /\ cache = EmptyCache
    /\ upload = [phase |-> "none"]
    /\ inflight = EmptyBag
    /\ lookedUp = {}
    /\ FreshQuiz

NextKeywords == \E count \in 0..MaxCount : ExtractKeywords(count)

\* getTopKeywords over bounded lines and counts.
SpecKeywords == InitKeywords /\ [][NextKeywords]_vars

-----------------------------------------------------------------------------
(* The quiz tab's handlers, lines 479-541.  Each click also reaches the    *)
(* window listener, which closes the popup.                                *)

\* The mode buttons, lines 479-484, are on the page above either mode.
ModeButtonsRendered ==
    QuizView \in {"flashcard", "question", "modes"}

\* A mode button, line 480, then the effect of lines 110-118.
SetQuizMode(mode) ==
    /\ ModeButtonsRendered
    /\ quizMode' = mode
    /\ quizFlipped' = FALSE
    /\ popup' = Null
    /\ UNCHANGED <<targetLang, wordBank, cache, inflight, lookedUp>>
    /\ UNCHANGED syncVars
    /\ UNCHANGED <<bootVars, storage, activeTab, quizIndex>>
    /\ QuizOptionsEffect(Null)

\* The card, line 490.
FlipCard ==
    /\ QuizView = "flashcard"
    /\ quizFlipped' = ~quizFlipped
    /\ popup' = Null
    /\ UNCHANGED <<targetLang, wordBank, cache, inflight, lookedUp>>
    /\ UNCHANGED syncVars
    /\ UNCHANGED <<bootVars, effectVars, activeTab, quizMode, quizIndex>>

\* Math.max(i - 1, 0), line 502.
PrevIndexUnclamped(i) == i - 1
PrevIndex(i) == IF i - 1 >= 0 THEN i - 1 ELSE 0

\* The previous-card button, line 502.
PrevCard ==
    /\ QuizView = "flashcard"
    /\ quizIndex' = PrevIndex(quizIndex)
    /\ quizFlipped' = FALSE
    /\ popup' = Null
    /\ UNCHANGED <<targetLang, wordBank, cache, inflight, lookedUp>>
    /\ UNCHANGED syncVars
    /\ UNCHANGED <<bootVars, storage, activeTab, quizMode>>
    /\ QuizOptionsEffect(quizAnswer)

\* i => i + 1, lines 505 and 537.
NextIndexWrapped(i) == (i + 1) % Len(wordBank)
NextIndex(i) == i + 1

\* The next-card button, line 505.
NextCard ==
    /\ QuizView = "flashcard"
    /\ quizIndex < MaxQuizIndex
    /\ quizIndex' = NextIndex(quizIndex)
    /\ quizFlipped' = FALSE
    /\ popup' = Null
    /\ UNCHANGED <<targetLang, wordBank, cache, inflight, lookedUp>>
    /\ UNCHANGED syncVars
    /\ UNCHANGED <<bootVars, storage, activeTab, quizMode>>
    /\ QuizOptionsEffect(quizAnswer)

\* Option i (0-based) of the question, line 529.
SelectOption(i) ==
    /\ QuizView = "question"
    /\ i \in 0..(Len(quizOptions) - 1)
    /\ quizAnswer' = IF quizAnswer = Null THEN Number(i) ELSE quizAnswer
    /\ popup' = Null
    /\ UNCHANGED <<targetLang, wordBank, cache, inflight, lookedUp>>
    /\ UNCHANGED syncVars
    /\ UNCHANGED <<bootVars, quizNavVars, storage, quizOptions>>

\* The next-question button, lines 536-537, then the effect of lines
\* 110-118.
NextQuestion ==
    /\ QuizView = "question"
    /\ quizAnswer # Null
    /\ quizIndex < MaxQuizIndex
    /\ quizIndex' = NextIndex(quizIndex)
    /\ popup' = Null
    /\ UNCHANGED <<targetLang, wordBank, cache, inflight, lookedUp>>
    /\ UNCHANGED syncVars
    /\ UNCHANGED <<bootVars, storage, activeTab, quizMode, quizFlipped>>
    /\ QuizOptionsEffect(Null)

\* The state after a startup that found the word bank of an earlier session
\* in storage, and a first upload (as in InitVocab).
InitQuiz ==
    /\ targetLang = LANGUAGES[1]
    /\ transcript = VocabLines
    /\ status = "ready"
    /\ statusMsg = MsgAnalysing
    /\ currentTime = 0
    /\ activeIndex = 0
    /\ popup = Null
    /\ videoURL = [tag |-> "url", file |-> "a.mp4"]
    /\ fileName = "a.mp4"
    /\ summary = SummaryBullets(ResultSummaryOf("a.mp4"))
    /\ keywords \in getTopKeywords(VocabLines, KeywordCount)
    /\ \E bank \in StoredBanks : Loaded(JSONstringify(bank))
    /\ cache = EmptyCache
    /\ upload = [phase |-> "none"]
    /\ inflight = EmptyBag
    /\ lookedUp = {}
    /\ FreshQuiz

Tabs == {"transcript", "wordbank", "quiz"}
QuizModes == {"flashcard", "quiz"}

NextQuiz ==
    \/ \E tab \in Tabs : SetActiveTab(tab)
    \/ \E mode \in QuizModes : SetQuizMode(mode)
    \/ FlipCard
    \/ PrevCard
    \/ NextCard
    \/ \E i \in 0..3 : SelectOption(i)
    \/ NextQuestion
    \/ Len(wordBank) > 0 /\ RemoveWord(wordBank[1].word)
    \/ \E confirmed \in BOOLEAN : ClearAll(confirmed)
    \/ \E k \in 1..KeywordCount : SaveFromKeyword(k)
    \/ \E req \in BagToSet(inflight), response \in Responses :
          SaveResolves(req, response)

\* The quiz over a word bank loaded from storage, with clearing, keyword
\* saves and removals; the entry the user removes is the newest one.
SpecQuiz == InitQuiz /\ [][NextQuiz]_vars

-----------------------------------------------------------------------------
(* Claims about the transcript player sync, checked under SpecSync.        *)

\* The 0-based indices of the lines that have started at `time`.
StartedIndices(lines, time) ==
    {i \in 0..(Len(lines) - 1) : lines[i + 1].start <= time}

SetMax(S) == CHOOSE m \in S : \A x \in S : x <= m

SortedByStart(lines) ==
    \A i \in 1..Len(lines) : \A j \in i..Len(lines) :
        lines[i].start <= lines[j].start

\* C4: whenever the transcript is non-empty (and the effect of the latest
\* time or transcript update has run, which is every state here), the
\* active index is the greatest index whose line has started at the current
\* playback time, and 0 when no line has started.
C4_ActiveIndexIsGreatestStarted ==
    transcript # <<>> =>
        LET started == StartedIndices(transcript, currentTime) IN
        activeIndex = IF started = {} THEN 0 ELSE SetMax(started)

\* C4's case: two lines, the player is past the start of the second one.
C4_Witness ==
    /\ status = "ready"
    /\ Len(transcript) = 2
    /\ transcript[1].start = 0
    /\ transcript[2].start = 5000
    /\ currentTime = 6000
    /\ activeIndex = 1

\* C5: whenever the transcript is empty the active index is 0.
C5_EmptyTranscriptHasIndexZero ==
    transcript = <<>> => activeIndex = 0

\* C6: for a fixed non-empty transcript sorted by start time, a step that
\* does not decrease the playback time does not decrease the active index.
C6_ActiveIndexMonotone ==
    [][(/\ transcript' = transcript
        /\ transcript # <<>>
        /\ SortedByStart(transcript)
        /\ currentTime' >= currentTime)
       => activeIndex' >= activeIndex]_vars

\* C6's case: playback has moved forward into the second of two lines that
\* start at different times.
C6_Witness ==
    /\ Len(transcript) = 2
    /\ transcript[1].start < transcript[2].start
    /\ currentTime > transcript[2].start
    /\ activeIndex = 1

-----------------------------------------------------------------------------
(* Claims about the popup, the cache and the word bank, checked under      *)
(* SpecVocab (C1, C2, C3, C8, C10) and SpecPopup (C7, C9).                 *)

\* The clean words a cache key can hold.
CleanWords ==
    {ClickClean(w) : w \in WordsShown} \cup {SaveClean(w) : w \in WordsShown}

\* C1: the word bank holds at most one entry per word, also when a second
\* save of a word starts before the first save's request has resolved.
C1_AtMostOneEntryPerWord ==
    \A i, j \in 1..Len(wordBank) :
        wordBank[i].word = wordBank[j].word => i = j

\* C2: a word click whose (word, language) pair has an outcome in the
\* cache, a translation or a recorded miss (null), shows that outcome and
\* issues no request.
C2_CachedOutcomeShownWithoutRequest ==
    [][\A word \in WordsShown :
          LET clean == ClickClean(word)
              key   == CacheKey(clean, targetLang)
          IN  (HandleWordClick(word) /\ Len(clean) >= 2
                 /\ key \in DOMAIN cache)
              => /\ inflight' = inflight
                 /\ popup' = [word |-> clean, translation |-> cache[key]]
      ]_vars

\* C3: when the request of a word click fails (no match, network or parse
\* error), the popup leaves the loading state.
C3_FailedLookupLeavesLoading ==
    [][\A req \in BagToSet(inflight) :
          \A response \in Responses \ {"ok"} :
             ClickResolves(req, response) => PopupView(popup') # "loading"
      ]_vars

\* C7: whenever the popup shows a translation, it is the service's text for
\* the word the popup shows.
C7_PopupTranslationIsOfItsWord ==
    PopupView(popup) = "translation" =>
        \E lang \in Langs : popup.translation = Text(popup.word, lang)

\* C7's case: the popup shows the translation of one word while the request
\* of a click on a different word is still awaited.
C7_Witness ==
    /\ PopupView(popup) = "translation"
    /\ \E req \in BagToSet(inflight) :
          req.kind = "click" /\ req.word # popup.word

\* C8: whatever a lookup or a save can read from the cache for a word under
\* a language is the translation of that word into that language: a result
\* obtained for another language never sits under the pair.
C8_CacheHitIsForItsLanguage ==
    \A w \in CleanWords : \A lang \in Langs :
        LET v == CacheGet(cache, CacheKey(w, lang)) IN
        Truthy(v) => v = Text(w, lang)

\* C8's case: under the second language the cache holds, for one word, a
\* result for the first language (its request resolved after the switch,
\* which had emptied the cache) and a result for the second language.
C8_Witness ==
    /\ targetLang = LANGUAGES[2]
    /\ \E w \in CleanWords :
          /\ Truthy(CacheGet(cache, CacheKey(w, LANGUAGES[1])))
          /\ Truthy(CacheGet(cache, CacheKey(w, LANGUAGES[2])))

\* A word click that issues a translation request.
ClickIssuesRequest(word) ==
    inflight' = inflight (+)
        SetToBag({Request("click", ClickClean(word), targetLang)})

\* C9 as stated: a change of the target language empties the cache, and the
\* first lookup of a word since the change issues a request.
C9_FirstLookupAfterChangeRequests ==
    [][/\ targetLang' # targetLang => cache' = EmptyCache
       /\ \A word \in WordsShown :
             (HandleWordClick(word) /\ Len(ClickClean(word)) >= 2
                /\ ClickClean(word) \notin lookedUp)
             => ClickIssuesRequest(word)
      ]_vars

\* C9 as amended: a change of the target language empties the cache, and a
\* lookup of a word issues a request unless the cache holds a translation
\* stored since the change for the word and the current language.
C9_LangChangeEmptiesCache ==
    [][/\ targetLang' # targetLang => cache' = EmptyCache
       /\ \A word \in WordsShown :
             (HandleWordClick(word) /\ Len(ClickClean(word)) >= 2
                /\ ~Truthy(CacheGet(cache,
                                    CacheKey(ClickClean(word), targetLang))))
             => ClickIssuesRequest(word)
      ]_vars

\* C9's case: the language has just been changed while a request was
\* awaited: the cache is empty and no word has been looked up since.
C9_Witness ==
    /\ targetLang # LANGUAGES[1]
    /\ cache = EmptyCache
    /\ lookedUp = {}
    /\ inflight # EmptyBag

\* C10: when a word click has cached a translation for the popup's word in
\* the current language, saving the word from the popup issues no request
\* and stores the cached translation.
C10_SaveUsesClickCachedTranslation ==
    [][(/\ SaveFromPopup
        /\ Len(SaveClean(popup.word)) >= 2
        /\ ~InBank(SaveClean(popup.word))
        /\ Truthy(CacheGet(cache, CacheKey(ClickClean(popup.word),
                                           targetLang))))
       => /\ inflight' = inflight
          /\ Len(wordBank') = Len(wordBank) + 1
          /\ wordBank'[1].word = SaveClean(popup.word)
          /\ wordBank'[1].translation =
               CacheGet(cache, CacheKey(ClickClean(popup.word), targetLang))
      ]_vars

\* C28: when the request of a word click completes after the popup was
\* dismissed, the popup stays closed; when it completes while the popup
\* shows another word, the popup keeps that word.  (The popup shows another
\* word than the latest click's only after an earlier completion has
\* already replaced it.)
C28_LateCompletionLeavesPopup ==
    [][\A req \in BagToSet(inflight) : \A response \in Responses :
          (req.kind = "click" /\ ClickResolves(req, response)) =>
             /\ popup = Null => popup' = Null
             /\ (popup # Null /\ popup.word # req.word)
                   => popup'.word = popup.word
      ]_vars

\* C30: every entry's translation is the service's text for the entry's
\* word and the entry's language, or the word itself; a save that completes
\* adds its word under the language of its request, with the service's text
\* for that pair when the response has one and the word otherwise, whatever
\* the target language is by then; and a save is started, or completed at
\* once from the cache, under the target language of that moment.
C30_EntryTranslationIsForItsLanguage ==
    /\ [](\A i \in 1..Len(wordBank) :
             \/ wordBank[i].translation
                  = Text(wordBank[i].word, wordBank[i].lang)
             \/ wordBank[i].translation = Lit(wordBank[i].word))
    /\ [][/\ \A req \in BagToSet(inflight) : \A response \in Responses :
               (req.kind = "save" /\ SaveResolves(req, response)) =>
                  /\ wordBank'[1].word = req.word
                  /\ wordBank'[1].lang = req.lang
                  /\ wordBank'[1].translation =
                       IF response = "ok" THEN Text(req.word, req.lang)
                       ELSE Lit(req.word)
          /\ \A req \in BagToSet(inflight') :
               (req.kind = "save"
                  /\ CopiesIn(req, inflight') > CopiesIn(req, inflight))
               => req.lang = targetLang
          /\ (Len(wordBank') > Len(wordBank) /\ inflight' = inflight)
               => wordBank'[1].lang = targetLang
         ]_vars

\* C30's case: the word bank holds hello under the first language with the
\* service's text for that language, while the target language is the
\* second and the cache, which the change had emptied, holds an outcome for
\* hello under the first language again: a request issued before the
\* change has completed after it.
C30_Witness ==
    /\ targetLang = LANGUAGES[2]
    /\ lookedUp = {}
    /\ inflight = EmptyBag
    /\ Len(wordBank) = 1
    /\ wordBank[1].lang = LANGUAGES[1]
    /\ wordBank[1].translation = Text(SaveClean(WordHello), LANGUAGES[1])
    /\ CacheGet(cache, CacheKey(SaveClean(WordHello), LANGUAGES[1]))
         = wordBank[1].translation

-----------------------------------------------------------------------------
(* Claims about the word bank and its persisted record, checked under      *)
(* SpecVocab (C11, C12), SpecStartup (C13) and SpecStore (C14, C15).       *)

Letters == UpperSet \cup LowerSet

\* Each letter with its lowercase form.
Lowered == [c \in Letters |->
              IF c \in LowerSet THEN c
              ELSE LowerChars[CHOOSE k \in 1..26 : UpperChars[k] = c]]

\* The letters of a raw word, in order, each in lower case.
LettersLowered(raw) ==
    LET letters == SelectSeq(raw, LAMBDA c : c \in Letters)
    IN  [i \in 1..Len(letters) |-> Lowered[letters[i]]]

\* The step stores an entry for word w under the current language, or
\* starts the request whose completion will.
SavedAs(w) ==
    \/ /\ Len(wordBank') = Len(wordBank) + 1
       /\ wordBank'[1].word = w
       /\ wordBank'[1].lang = targetLang
    \/ inflight' = inflight (+)
          SetToBag({[kind |-> "save", word |-> w, lang |-> targetLang]})

\* saveWord(raw) returns at line 207: the cleaned word is too short or is
\* in the word bank.
Rejected(raw) ==
    \/ Len(LettersLowered(raw)) < 2
    \/ \E i \in 1..Len(wordBank) : wordBank[i].word = LettersLowered(raw)

\* C11: starting from an empty word bank, every entry's word consists of
\* lowercase letters only and has at least 2 of them, and a save of a raw
\* word stores the raw word's letters, lowercased: at once on a cache hit,
\* or when its request completes, with the service's text as translation.
C11_StoredWordsAreCleaned ==
    [][/\ \A i \in 1..Len(wordBank') :
             /\ Len(wordBank'[i].word) >= 2
             /\ \A j \in 1..Len(wordBank'[i].word) :
                   wordBank'[i].word[j] \in LowerSet
       /\ (popup # Null /\ SaveFromPopup /\ ~Rejected(popup.word))
             => SavedAs(LettersLowered(popup.word))
       /\ \A k \in 1..Len(keywords) :
             (popup' = Null /\ SaveFromKeyword(k) /\ ~Rejected(keywords[k]))
             => SavedAs(LettersLowered(keywords[k]))
       /\ \A req \in BagToSet(inflight) :
             (req.kind = "save" /\ SaveResolves(req, "ok"))
             => wordBank'[1] = [word |-> req.word,
                                translation |-> Text(req.word, req.lang),
                                lang |-> req.lang,
                                date |-> now]
      ]_vars

\* C11's case: the word Hello was clicked, and the word bank holds the entry
\* hello with the service's translation into the first language.
C11_Witness ==
    /\ WordHello \in lookedUp
    /\ \E i \in 1..Len(wordBank) :
          /\ wordBank[i].word = <<"h","e","l","l","o">>
          /\ wordBank[i].translation = Text(<<"h","e","l","l","o">>,
                                            LANGUAGES[1])
          /\ wordBank[i].lang = LANGUAGES[1]

\* A step that leaves the word bank, its persisted record, the requests in
\* flight, the cache and the status as they were.
SaveIsNoOp ==
    /\ wordBank' = wordBank
    /\ storage' = storage
    /\ inflight' = inflight
    /\ cache' = cache
    /\ status' = status

\* C12: a save whose cleaned word has fewer than 2 letters or is already in
\* the word bank changes neither the word bank nor its persisted record,
\* issues no request and enters no error state.
C12_RejectedSaveIsNoOp ==
    [][/\ (SaveFromPopup /\ Rejected(popup.word)) => SaveIsNoOp
       /\ \A k \in 1..Len(keywords) :
             (SaveFromKeyword(k) /\ Rejected(keywords[k])) => SaveIsNoOp
      ]_vars

\* C12's case: the word bank holds the entry hello under the first language
\* while, under the second language, the popup offers to save Hello, whose
\* cleaned form is that entry's word.
C12_Witness ==
    /\ targetLang = LANGUAGES[2]
    /\ PopupView(popup) = "translation"
    /\ popup.word = WordHello
    /\ Len(wordBank) = 1
    /\ wordBank[1].word = LettersLowered(WordHello)
    /\ wordBank[1].lang = LANGUAGES[1]

\* C13: when the item found at startup is absent or is not the record of a
\* word bank (not JSON, or JSON that is not an array of entries), the word
\* bank starts as the empty array and the first render does not throw.
C13_CorruptRecordStartsEmpty ==
    (boot = Null \/ boot \in CorruptItems)
        => /\ ~crashed
           /\ LoadedKind(boot) = "array"
           /\ wordBank = <<>>

\* C14: the persisted record is the serialization of the whole current
\* word bank, after every save, removal and clearing.
C14_RecordIsCurrentBank ==
    storage = JArr([i \in 1..Len(wordBank) |-> StringifyEntry(wordBank[i])])

\* C14's case: two saves have completed and the record holds both entries.
C14_Witness ==
    /\ Len(wordBank) = 2
    /\ Len(storage.items) = 2

\* C15: serializing the word bank and loading the text, as startup does,
\* gives the same entries (word, translation, language, date) in the same
\* order.
C15_StoreRoundTrips ==
    LoadWordBank(JSONstringify(wordBank)) = wordBank

\* C15's case: two entries saved at different times, one with the service's
\* translation and one with the word itself as translation.
C15_Witness ==
    /\ Len(wordBank) = 2
    /\ wordBank[1].date # wordBank[2].date
    /\ wordBank[1].translation.tag # wordBank[2].translation.tag

-----------------------------------------------------------------------------
(* Claims about the quiz, checked under SpecQuiz.                          *)

DistinctWords(bank) ==
    \A i, j \in 1..Len(bank) : bank[i].word = bank[j].word => i = j

\* The options effect ran in this step for a word bank of distinct words.
OptionsGenerated ==
    /\ \/ quizIndex' # quizIndex
       \/ quizMode' # quizMode
       \/ Len(wordBank') # Len(wordBank)
    /\ quizMode' = "quiz"
    /\ Len(wordBank') >= 2
    /\ DistinctWords(wordBank')

\* C16: options generated for a word bank of n >= 2 entries with distinct
\* words are min(n, 4) entries of the word bank with pairwise distinct
\* words, the correct entry wordBank[quizIndex mod n] among them exactly
\* once; for n = 2 or 3 they are all the entries.
C16_OptionsHoldCorrectOnce ==
    [][OptionsGenerated =>
         LET n       == Len(wordBank')
             correct == wordBank'[(quizIndex' % n) + 1]
             opts    == quizOptions'
         IN  /\ Len(opts) = IF n < 4 THEN n ELSE 4
             /\ DistinctWords(opts)
             /\ Cardinality({i \in 1..Len(opts) : opts[i] = correct}) = 1
             /\ \A i \in 1..Len(opts) :
                   \E k \in 1..n : opts[i] = wordBank'[k]
             /\ n <= 3 =>
                   \A k \in 1..n : \E i \in 1..Len(opts) :
                       opts[i] = wordBank'[k]
      ]_vars

\* C16's case: a question over a word bank of five entries, with four
\* options.
C16_Witness ==
    /\ QuizView = "question"
    /\ Len(wordBank) = 5
    /\ Len(quizOptions) = 4

\* C17: in multiple-choice mode, once an option is selected, no step that
\* stays in the mode, other than next question (the only one that advances
\* quizIndex), changes the recorded answer or the options.
C17_AnswerLockedUntilNextQuestion ==
    [][(/\ quizMode = "quiz"
        /\ quizAnswer # Null
        /\ quizMode' = "quiz"
        /\ quizIndex' = quizIndex)
       => /\ quizAnswer' = quizAnswer
          /\ quizOptions' = quizOptions
      ]_vars

\* C18: on the quiz tab, flashcard mode shows a card exactly when the word
\* bank has at least 1 entry and multiple-choice mode shows a question
\* exactly when it has at least 2; otherwise the insufficient-entries
\* message is shown.
C18_ModeMinimumsDecideView ==
    (DashboardRendered /\ activeTab = "quiz") =>
        /\ quizMode = "flashcard" =>
              QuizView = (IF Len(wordBank) >= 1 THEN "flashcard"
                          ELSE "insufficient")
        /\ quizMode = "quiz" =>
              QuizView = (IF Len(wordBank) >= 2 THEN "question"
                          ELSE "insufficient")

\* C19: quizIndex is never negative; the quiz word is read only from a word
\* bank of size >= 1, at an index inside it; and on the quiz tab, a word
\* bank below the mode's minimum (2 for questions, 1 for cards) shows the
\* insufficient-entries message.
C19_QuizReadsStayInRange ==
    /\ quizIndex >= 0
    /\ IF Len(wordBank) = 0
       THEN quizWord = Null
       ELSE \E k \in 1..Len(wordBank) :
               /\ k - 1 = quizIndex % Len(wordBank)
               /\ quizWord = wordBank[k]
    /\ (/\ DashboardRendered /\ activeTab = "quiz"
        /\ \/ quizMode = "quiz" /\ Len(wordBank) < 2
           \/ quizMode = "flashcard" /\ Len(wordBank) < 1)
       => QuizView = "insufficient"

\* C19's case: quizIndex has advanced in multiple-choice mode, the word
\* bank has then shrunk to one entry, and the quiz tab is shown.
C19_Witness ==
    /\ QuizView = "insufficient"
    /\ quizMode = "quiz"
    /\ quizIndex > 0
    /\ Len(wordBank) = 1

\* C27: in flashcard mode, next adds 1 to quizIndex, previous subtracts 1
\* but stays at 0 from 0, and both show the front side; flip toggles the
\* side and leaves quizIndex as it is; the card shown is the entry at
\* quizIndex mod the size of the word bank.
C27_FlashcardNavigation ==
    /\ [](QuizView = "flashcard" =>
            quizWord = wordBank[(quizIndex % Len(wordBank)) + 1])
    /\ [][/\ (QuizView = "flashcard" /\ NextCard) =>
               (quizIndex' = quizIndex + 1 /\ quizFlipped' = FALSE)
          /\ (QuizView = "flashcard" /\ PrevCard) =>
               /\ quizIndex' = IF quizIndex = 0 THEN 0 ELSE quizIndex - 1
               /\ quizFlipped' = FALSE
          /\ (QuizView = "flashcard" /\ FlipCard) =>
               (quizFlipped' = ~quizFlipped /\ quizIndex' = quizIndex)
         ]_vars

\* C27's case: next was pressed twice over a word bank of two entries, so
\* the card is the first entry again, and it is flipped to its back.
C27_Witness ==
    /\ QuizView = "flashcard"
    /\ Len(wordBank) = 2
    /\ quizIndex = 2
    /\ quizWord = wordBank[1]
    /\ quizFlipped

-----------------------------------------------------------------------------
(* Claims about the upload flow, checked under SpecSync.                   *)

\* C20: while status is loading the transcript is empty; the transcript
\* changes only by being emptied as status becomes loading, or by receiving
\* the whole result in the step that sets status to ready; and status
\* becomes ready only in such a step.
C20_LinesAppearWholeWithReady ==
    [][/\ status' = "loading" => transcript' = <<>>
       /\ transcript' # transcript =>
             \/ status' = "loading" /\ transcript' = <<>>
             \/ status = "loading" /\ status' = "ready"
       /\ \A s \in SentenceLists :
             SentencesOk(s) =>
                /\ status' = "ready"
                /\ transcript' = IF Len(s) > 0 THEN s
                                 ELSE <<[start |-> 0, text |-> upload.text]>>
       /\ (status' = "ready" /\ status # "ready") =>
             \E s \in SentenceLists : SentencesOk(s)
      ]_vars

\* C20's case: a second upload has completed with a result of two lines
\* (the first upload's file was a.mp4).
C20_Witness ==
    /\ status = "ready"
    /\ fileName = "b.mp3"
    /\ Len(transcript) = 2

\* The summary the page shows for a file's result: at most five points.
ShownSummaryOf(file) ==
    IF file = "a.mp4"
    THEN <<"point 1", "point 2", "point 3", "point 4", "point 5">>
    ELSE <<>>

\* C29: an upload is in flight exactly while status is loading, and then no
\* file input is on the page and no step selects a file; so whenever status
\* is ready, the transcript, the keywords and the summary are those of the
\* result for the file selected last.
C29_OneUploadAtATime ==
    /\ [](status = "loading" <=> upload.phase # "none")
    /\ [](status = "loading" =>
            (~FileInputRendered /\ upload.file = fileName))
    /\ [](status = "ready" =>
            /\ Len(transcript) >= 1
            /\ \A i \in 1..Len(transcript) :
                  transcript[i].text = ResultTextOf(fileName)
            /\ keywords \in getTopKeywords(transcript, KeywordCount)
            /\ summary = ShownSummaryOf(fileName))
    /\ [][status = "loading" => (fileName' = fileName /\ status' # "idle")
         ]_vars

\* C29's case: the page shows the result for b.mp3, two lines of its text
\* and no summary.
C29_Witness ==
    /\ status = "ready"
    /\ fileName = "b.mp3"
    /\ Len(transcript) = 2
    /\ transcript[2].text = ResultTextOf("b.mp3")
    /\ summary = <<>>

\* An upload ends in this step without reaching ready.
UploadFails ==
    /\ upload.phase # "none"
    /\ upload'.phase = "none"
    /\ status' # "ready"

-----------------------------------------------------------------------------
(* Claims about the keyword extractor, checked under SpecKeywords.         *)

\* The letters-only lowercased forms of all tokens of the lines, in order.
TokenForms(lines) ==
    LET tokens == AllTokens(lines)
    IN  [i \in 1..Len(tokens) |-> LettersLowered(tokens[i])]

Occurrences(forms, w) == Cardinality({i \in 1..Len(forms) : forms[i] = w})

FirstOccurrence(forms, w) ==
    CHOOSE i \in 1..Len(forms) :
        forms[i] = w /\ \A j \in 1..(i - 1) : forms[j] # w

\* The forms of at least 5 letters that are not stop words, by descending
\* number of occurrences, those with equal numbers by first occurrence.
Ranking(lines) ==
    LET forms == TokenForms(lines)
        words == {forms[i] : i \in 1..Len(forms)}
        kept  == {w \in words : Len(w) >= 5 /\ w \notin STOP_WORDS}
    IN  CHOOSE r \in PermsOf(kept) :
           \A i, j \in 1..Len(r) : i < j =>
              \/ Occurrences(forms, r[i]) > Occurrences(forms, r[j])
              \/ /\ Occurrences(forms, r[i]) = Occurrences(forms, r[j])
                 /\ FirstOccurrence(forms, r[i]) < FirstOccurrence(forms, r[j])

\* C22: getTopKeywords(lines, N) has one possible result, the first N words
\* (all of them when there are fewer) of the ranking of the letters-only
\* lowercased tokens of at least 5 letters outside the stop words, by
\* descending occurrence count and then first occurrence; the lines are
\* left as they were.
C22_TopKeywordsRanked ==
    [][\A n \in 0..MaxCount :
          ExtractKeywords(n) =>
             LET r == Ranking(transcript) IN
             /\ keywords' = SubSeq(r, 1, IF n < Len(r) THEN n ELSE Len(r))
             /\ Cardinality(getTopKeywords(transcript, n)) = 1
             /\ transcript' = transcript
      ]_vars

-----------------------------------------------------------------------------
(* Claims about the word bank's order, export, removal and clearing,       *)
(* checked under SpecBank.                                                 *)

\* C23: a step that adds an entry puts it at position 0, stamped with the
\* current time, with all earlier entries after it in their order; so the
\* entries are always ordered most recently saved first.
C23_NewestEntryFirst ==
    /\ [](\A i, j \in 1..Len(wordBank) :
             i < j => wordBank[i].date >= wordBank[j].date)
    /\ [][Len(wordBank') > Len(wordBank) =>
             /\ Len(wordBank') = Len(wordBank) + 1
             /\ wordBank'[1].date = now
             /\ \A i \in 1..Len(wordBank) : wordBank'[i + 1] = wordBank[i]
         ]_vars

\* C23's case: a save has completed, at time 2, over the one entry that
\* startup had loaded.
C23_Witness ==
    /\ Len(wordBank) = 2
    /\ wordBank[1].date = 2
    /\ wordBank[2] = StoredEntry(1)

\* The lines of a text: its pieces between the line breaks.
RECURSIVE SplitLines(_)
SplitLines(text) ==
    IF \E i \in 1..Len(text) : text[i] = LineBreak
    THEN LET i == CHOOSE k \in 1..Len(text) :
                     text[k] = LineBreak
                     /\ \A j \in 1..(k - 1) : text[j] # LineBreak
         IN  <<SubSeq(text, 1, i - 1)>>
             \o SplitLines(SubSeq(text, i + 1, Len(text)))
    ELSE <<text>>

\* word,translation,language of an entry.
CsvRow(e) ==
    <<Chunk(Lit(e.word)), Comma>> \o PiecesOf(e.translation)
    \o <<Comma, Chunk([tag |-> "code", s |-> e.lang])>>

\* C24: the exported text of a word bank of N entries has exactly N + 1
\* lines, the header Word,Translation,Language and then one row per entry
\* in the word bank's order; exporting leaves the word bank and its
\* persisted record as they were.
C24_ExportHasOneLinePerEntry ==
    [][DownloadCSV =>
         LET lines == SplitLines(exported'.text) IN
         /\ Len(lines) = Len(wordBank) + 1
         /\ lines[1] = <<Chunk(Header("Word")), Comma,
                         Chunk(Header("Translation")), Comma,
                         Chunk(Header("Language"))>>
         /\ \A i \in 1..Len(wordBank) : lines[i + 1] = CsvRow(wordBank[i])
         /\ wordBank' = wordBank
         /\ storage' = storage
      ]_vars

\* The words an entry could have.
BankWords ==
    {StoredWord(k) : k \in 1..(MaxStored + 1)} \cup {SaveClean(WordHello)}

\* C25: removing a word leaves exactly the entries with another word, each
\* as it was and in the same relative order; removing a word that no entry
\* has leaves the word bank as it is.
C25_RemoveKeepsTheRest ==
    /\ [](\A w \in BankWords :
             (\A i \in 1..Len(wordBank) : wordBank[i].word # w)
                => removeWord(wordBank, w) = wordBank)
    /\ [][\A k \in 1..Len(wordBank) :
             RemoveWord(wordBank[k].word) =>
                LET w    == wordBank[k].word
                    kept == {i \in 1..Len(wordBank) : wordBank[i].word # w}
                IN  /\ Len(wordBank') = Cardinality(kept)
                    /\ \A i \in kept :
                          wordBank'[Cardinality({j \in kept : j <= i})]
                            = wordBank[i]
         ]_vars

\* C25's case: of the three entries startup loaded, the middle one has been
\* removed.
C25_Witness ==
    /\ Len(boot.items) = 3
    /\ wordBank = <<StoredEntry(1), StoredEntry(3)>>

\* C26: the clear-all button with the confirmation declined leaves the word
\* bank and its persisted record as they were; with the confirmation
\* accepted it empties both; and no other step empties a word bank of two
\* or more words.
C26_ClearOnlyWhenConfirmed ==
    [][/\ ClearAll(FALSE) => (wordBank' = wordBank /\ storage' = storage)
       /\ ClearAll(TRUE) => (wordBank' = <<>> /\ storage' = JArr(<<>>))
       /\ (/\ wordBank' = <<>>
           /\ Cardinality({wordBank[i].word : i \in 1..Len(wordBank)}) >= 2)
             => ClearAll(TRUE)
      ]_vars

\* C26's case: on the word bank tab, the five entries startup loaded are
\* gone and the record is the empty array.
C26_Witness ==
    /\ Len(boot.items) = 5
    /\ activeTab = "wordbank"
    /\ wordBank = <<>>
    /\ storage = JArr(<<>>)

====
